---- MODULE Spec2Model ----
(***************************************************************************)
(* Extension methods for Square: the four registration strategies of       *)
(* extend.py (monkey_extend, scoped_extend, no_override_extend, extension) *)
(* and Python's attribute lookup on a Square instance, seen from one       *)
(* calling frame (the main() function of a driver script and its module).  *)
(***************************************************************************)
EXTENDS Integers, Sequences, FiniteSets, TLC

\* Longest chain of __getattr__ handlers installed on Square.
MaxRegs == 2

\* square.py: randint(1, 10)
MinLength == 1
MaxLength == 10

(***************************************************************************)
(* Python values.  Every value bound in a frame is a string: a function    *)
(* object, a class object, True or None.  Distinct strings are distinct    *)
(* objects (== on functions and classes is identity).                      *)
(***************************************************************************)
None == "None"
PyTrue == "True"
\* A key that a namespace does not hold.
Absent == "<absent>"

AttributeError == "AttributeError"
TypeError == "TypeError"

\* The extension functions: draw as the extend_N modules define it, a second
\* function that is also called draw, and a function called snake.
Draw == "function draw"
OtherDraw == "function draw (another module)"
SnakeFn == "function snake"
Funcs == {Draw, OtherDraw, SnakeFn}

\* f.__name__
FuncName(f) == IF f = SnakeFn THEN "snake" ELSE "draw"

\* Classes deriving from Square and decorated with extension: the class of
\* extend_5.py, and a second class of the same name that defines a property.
SquareExtensions == "class SquareExtensions"
SquareExtensionsB == "class SquareExtensions (another module)"
Classes == {SquareExtensions, SquareExtensionsB}

\* scope_cls.__name__
ClassName(c) == "SquareExtensions"

\* The names a frame of the caller can bind.
ScopeNames == {"draw", "snake", "SquareExtensions"}

\* The attribute names looked up on the instance.
LookupNames == {"length", "snake", "draw", "area", "__name__"}

(***************************************************************************)
(* Outcomes of an attribute lookup.                                        *)
(***************************************************************************)
Raise(exc) == [kind |-> "raise", v |-> exc, n |-> 0]
StrVal(s) == [kind |-> "str", v |-> s, n |-> 0]
IntVal(i) == [kind |-> "int", v |-> "", n |-> i]
\* functools.partial(f, obj); obj is a Square, written as its length
Partial(f, obj) == [kind |-> "partial", v |-> f, n |-> obj]
\* the bound method obj.f of a function found in the class
BoundMethod(f, obj) == [kind |-> "method", v |-> f, n |-> obj]
NoOutcome == [kind |-> "none", v |-> "", n |-> 0]

VARIABLES
    square,     \* <<>> before get_square(), <<length>> after
    cls_dict,   \* Square.__dict__: the functions attached by monkey_extend
    handlers,   \* the __getattr__ handlers installed on Square, oldest first
    f_globals,  \* the caller's module namespace
    f_locals,   \* the caller's function namespace
    result      \* the last attribute lookup: its name and outcome

vars == <<square, cls_dict, handlers, f_globals, f_locals, result>>

(***************************************************************************)
(* The call stack that inspect.stack() returns during a lookup, innermost  *)
(* frame first: the frames of extend.py's own functions, then the caller's *)
(* function, then the caller's module (whose locals are its globals).      *)
(***************************************************************************)
ExtendFile == "extend.py"
CallerFile == "main.py"

EmptyNamespace == [k \in ScopeNames |-> Absent]

FrameInfo(file, locs, globs) ==
    [filename |-> file, f_locals |-> locs, f_globals |-> globs]

Stack(locs, globs) ==
    << FrameInfo(ExtendFile, EmptyNamespace, EmptyNamespace),
       FrameInfo(ExtendFile, EmptyNamespace, EmptyNamespace),
       FrameInfo(ExtendFile, EmptyNamespace, EmptyNamespace),
       FrameInfo(CallerFile, locs, globs),
       FrameInfo(CallerFile, globs, globs) >>

\* Mutant: the outermost frame of the caller's file, its module, is taken
\* instead of the nearest one.
_get_outermost_stack_frame(stack) ==
    LET i == CHOOSE k \in 1..Len(stack) :
                 /\ stack[k].filename # ExtendFile
                 /\ \A j \in (k + 1)..Len(stack) : stack[j].filename = ExtendFile
    IN  stack[i]

\* extend.py: the first frame whose file is not extend.py
_get_first_external_stack_frame(stack) ==
    LET i == CHOOSE k \in 1..Len(stack) :
                 /\ stack[k].filename # ExtendFile
                 /\ \A j \in 1..(k - 1) : stack[j].filename = ExtendFile
    IN  stack[i]

\* Mutant: the second mapping is asked before the first.
ChainMapGet_second_first(first, second, name) ==
    IF name \in DOMAIN second /\ second[name] # Absent THEN second[name]
    ELSE IF name \in DOMAIN first /\ first[name] # Absent THEN first[name]
    ELSE None

\* ChainMap(first, second).get(name): the first mapping that holds the key
\* decides; None when neither holds it.
ChainMapGet(first, second, name) ==
    IF name \in DOMAIN first /\ first[name] # Absent THEN first[name]
    ELSE IF name \in DOMAIN second /\ second[name] # Absent THEN second[name]
    ELSE None

_is_in_scope(name, value, stack) ==
    LET frame == _get_first_external_stack_frame(stack)
    IN  ChainMapGet(frame.f_locals, frame.f_globals, name) = value

(***************************************************************************)
(* Attributes of the classes decorated with extension.                     *)
(***************************************************************************)
\* type's attributes, found on every class and on no instance
TypeAttrs == {"__name__"}

\* the names a class body defines
ClassBody(c) == IF c = SquareExtensions THEN {"draw"} ELSE {"area"}

\* hasattr(scope_cls, name): type's attributes, the class body, and what the
\* class inherits from Square (cd is Square.__dict__)
hasattr(cd, scope_cls, name) ==
    \/ name \in TypeAttrs
    \/ name \in ClassBody(scope_cls)
    \/ (name \in DOMAIN cd /\ cd[name] # Absent)

\* getattr(scope_cls, name), for a name the class has
class_getattr(cd, scope_cls, name) ==
    IF name = "__name__" THEN [kind |-> "str", v |-> ClassName(scope_cls)]
    ELSE IF name \in ClassBody(scope_cls)
    THEN IF name = "draw"
         THEN [kind |-> "function", v |-> "function SquareExtensions.draw"]
         ELSE [kind |-> "property", v |-> "property SquareExtensions.area"]
    ELSE [kind |-> "function", v |-> cd[name]]

\* the getter of the property area: the square's area
property_get(obj) == IntVal(obj * obj)

\* functools.partial(f, obj) refuses a first argument that is not callable
functools_partial(attr, obj) ==
    IF attr.kind = "function" THEN Partial(attr.v, obj) ELSE Raise(TypeError)

(***************************************************************************)
(* The __getattr__ handlers.  Each returns the outcome of the call: a      *)
(* value, or the exception that leaves it.  original is the outcome of     *)
(* original_getattr(obj, name), the handler installed before.              *)
(***************************************************************************)
\* square.py: Square.__getattr__
Square_getattr(obj, name) ==
    IF name = "snake" THEN StrVal("eyes") ELSE Raise(AttributeError)

\* Mutant: the handler does not compare the name with f.__name__.
scoped_getattr_any_name(f, obj, name, stack) ==
    IF ~_is_in_scope(FuncName(f), f, stack) THEN Raise(AttributeError)
    ELSE functools_partial([kind |-> "function", v |-> f], obj)

\* extend.py: scoped_extend(cls)(f)._getattr
scoped_getattr(f, obj, name, stack) ==
    IF name # FuncName(f) THEN Raise(AttributeError)
    ELSE IF ~_is_in_scope(FuncName(f), f, stack) THEN Raise(AttributeError)
    ELSE functools_partial([kind |-> "function", v |-> f], obj)

\* Mutant: the handler does not call original_getattr.
no_override_getattr_no_chain(original, f, obj, name, stack) ==
    IF name # FuncName(f) THEN Raise(AttributeError)
    ELSE IF ~_is_in_scope(FuncName(f), f, stack) THEN Raise(AttributeError)
    ELSE functools_partial([kind |-> "function", v |-> f], obj)

\* extend.py: no_override_extend(cls)(f)._getattr; suppress(AttributeError)
\* lets every other outcome of original_getattr through
no_override_getattr(original, f, obj, name, stack) ==
    IF original # Raise(AttributeError) THEN original
    ELSE IF name # FuncName(f) THEN Raise(AttributeError)
    ELSE IF ~_is_in_scope(FuncName(f), f, stack) THEN Raise(AttributeError)
    ELSE functools_partial([kind |-> "function", v |-> f], obj)

\* extend.py: extension(scope_cls)._getattr
extension_getattr(original, cd, scope_cls, obj, name, stack) ==
    IF original # Raise(AttributeError) THEN original
    ELSE IF ~hasattr(cd, scope_cls, name) THEN Raise(AttributeError)
    ELSE IF ~_is_in_scope(ClassName(scope_cls), scope_cls, stack)
    THEN Raise(AttributeError)
    ELSE LET f == class_getattr(cd, scope_cls, name)
         IN  IF f.kind = "property" THEN property_get(obj)
             ELSE functools_partial(f, obj)

\* The handler at position i of the chain hs, called with (obj, name);
\* position 0 is the __getattr__ that the class Square defines.
RECURSIVE call_getattr(_, _, _, _, _, _)
call_getattr(cd, hs, i, obj, name, stack) ==
    IF i = 0 THEN Square_getattr(obj, name)
    ELSE LET h == hs[i]
         IN  CASE h.kind = "scoped" ->
                    scoped_getattr(h.target, obj, name, stack)
               [] h.kind = "no_override" ->
                    no_override_getattr(
                        call_getattr(cd, hs, i - 1, obj, name, stack),
                        h.target, obj, name, stack)
               [] h.kind = "extension" ->
                    extension_getattr(
                        call_getattr(cd, hs, i - 1, obj, name, stack),
                        cd, h.target, obj, name, stack)

\* object.__getattribute__ on a Square: the instance's field, then the
\* functions in the class.
object_getattribute(cd, obj, name) ==
    IF name = "length" THEN IntVal(obj)
    ELSE IF name \in DOMAIN cd /\ cd[name] # Absent
    THEN BoundMethod(cd[name], obj)
    ELSE Raise(AttributeError)

\* Mutant: the class's __getattr__ is asked before the regular lookup.
py_getattr_handler_first(cd, hs, obj, name, locs, globs) ==
    LET handled == call_getattr(cd, hs, Len(hs), obj, name, Stack(locs, globs))
    IN  IF handled # Raise(AttributeError) THEN handled
        ELSE object_getattribute(cd, obj, name)

\* obj.name, evaluated in the caller's frame: the class's __getattr__ runs
\* only when the regular lookup raises AttributeError.
py_getattr(cd, hs, obj, name, locs, globs) ==
    LET regular == object_getattribute(cd, obj, name)
    IN  IF regular # Raise(AttributeError) THEN regular
        ELSE call_getattr(cd, hs, Len(hs), obj, name, Stack(locs, globs))

(***************************************************************************)
(* State machine                                                           *)
(***************************************************************************)
Init ==
    /\ square = <<>>
    /\ cls_dict = [k \in {"draw", "snake"} |-> Absent]
    /\ handlers = <<>>
    /\ f_globals = EmptyNamespace
    /\ f_locals = EmptyNamespace
    /\ result = [name |-> "", out |-> NoOutcome]

\* Mutant: randint(0, 10)
get_square_lengths_from_zero == (MinLength - 1)..MaxLength

\* square.py: get_square() draws the length with randint(1, 10)
get_square_lengths == MinLength..MaxLength

\* square = get_square(), once per driver
GetSquare ==
    /\ square = <<>>
    /\ \E len \in get_square_lengths : square' = <<len>>
    /\ UNCHANGED <<cls_dict, handlers, f_globals, f_locals, result>>

\* monkey_extend(Square)(f): setattr(cls, f.__name__, f)
MonkeyExtend(f) ==
    /\ cls_dict' = [cls_dict EXCEPT ![FuncName(f)] = f]
    /\ UNCHANGED <<square, handlers, f_globals, f_locals, result>>

\* scoped_extend(Square)(f): cls.__getattr__ = _getattr
ScopedExtend(f) ==
    /\ Len(handlers) < MaxRegs
    /\ handlers' = Append(handlers, [kind |-> "scoped", target |-> f])
    /\ UNCHANGED <<square, cls_dict, f_globals, f_locals, result>>

\* no_override_extend(Square)(f)
NoOverrideExtend(f) ==
    /\ Len(handlers) < MaxRegs
    /\ handlers' = Append(handlers, [kind |-> "no_override", target |-> f])
    /\ UNCHANGED <<square, cls_dict, f_globals, f_locals, result>>

\* extension(scope_cls), scope_cls.__base__ being Square
Extension(scope_cls) ==
    /\ Len(handlers) < MaxRegs
    /\ handlers' = Append(handlers, [kind |-> "extension", target |-> scope_cls])
    /\ UNCHANGED <<square, cls_dict, f_globals, f_locals, result>>

\* the name under which an import binds a function or a class
ObjectName(v) == IF v \in Funcs THEN FuncName(v) ELSE ClassName(v)

\* "from extend_N import <name>" at module level of the caller
Import(v) ==
    /\ f_globals' = [f_globals EXCEPT ![ObjectName(v)] = v]
    /\ UNCHANGED <<square, cls_dict, handlers, f_locals, result>>

\* "<name> = <value>" inside the caller's function
AssignLocal(name, v) ==
    /\ f_locals' = [f_locals EXCEPT ![name] = v]
    /\ UNCHANGED <<square, cls_dict, handlers, f_globals, result>>

\* "square.<name>" inside the caller's function
Lookup(name) ==
    /\ square # <<>>
    /\ result' = [name |-> name,
                  out |-> py_getattr(cls_dict, handlers, square[1], name,
                                     f_locals, f_globals)]
    /\ UNCHANGED <<square, cls_dict, handlers, f_globals, f_locals>>

(***************************************************************************)
(* Spec: every registration strategy, chained in every order, seen from a  *)
(* caller that imports draw, snake and SquareExtensions and may rebind     *)
(* draw.                                                                   *)
(***************************************************************************)
ChainFuncs == {Draw, SnakeFn}
ChainImports == {Draw, SnakeFn, SquareExtensions}
ChainLocals == {<<"draw", PyTrue>>}

Next ==
    \/ GetSquare
    \/ \E f \in ChainFuncs : MonkeyExtend(f)
    \/ \E f \in ChainFuncs : ScopedExtend(f)
    \/ \E f \in ChainFuncs : NoOverrideExtend(f)
    \/ \E c \in Classes : Extension(c)
    \/ \E v \in ChainImports : Import(v)
    \/ \E b \in ChainLocals : AssignLocal(b[1], b[2])
    \/ \E name \in LookupNames : Lookup(name)

Spec == Init /\ [][Next]_vars

(***************************************************************************)
(* SpecScope: the scope check, seen from every frame the caller can build  *)
(* out of the two functions called draw, the two classes called            *)
(* SquareExtensions and True, over the extensions that frame can name.     *)
(***************************************************************************)
ScopeFuncs == {Draw, OtherDraw}
ScopeImports == {Draw, OtherDraw, SquareExtensions, SquareExtensionsB}
ScopeLocals ==
    {<<"draw", PyTrue>>, <<"draw", Draw>>,
     <<"SquareExtensions", PyTrue>>, <<"SquareExtensions", SquareExtensions>>}

NextScope ==
    \/ GetSquare
    \/ ScopedExtend(Draw)
    \/ \E f \in ScopeFuncs : NoOverrideExtend(f)
    \/ \E c \in Classes : Extension(c)
    \/ \E v \in ScopeImports : Import(v)
    \/ \E b \in ScopeLocals : AssignLocal(b[1], b[2])
    \/ \E name \in LookupNames : Lookup(name)

SpecScope == Init /\ [][NextScope]_vars

(***************************************************************************)
(* Vocabulary of the properties                                            *)
(***************************************************************************)
Made == square # <<>>
Obj == square[1]
NotFound == Raise(AttributeError)

\* the outcome of "square.<name>" made now by the caller
Now(name) == py_getattr(cls_dict, handlers, Obj, name, f_locals, f_globals)

\* the name is found without any __getattr__
Regular(name) == object_getattribute(cls_dict, Obj, name) # NotFound

\* what the handlers installed before the newest one answer for the name
Earlier(name) ==
    call_getattr(cls_dict, handlers, Len(handlers) - 1, Obj, name,
                 Stack(f_locals, f_globals))

Newest == handlers[Len(handlers)]

\* the caller's function binds the name to the value, or does not bind the
\* name while the caller's module binds it to the value
Visible(locs, globs, name, value) ==
    IF locs[name] # Absent THEN locs[name] = value ELSE globs[name] = value

\* C1: while the handler of scoped_extend(Square)(f) or of
\* no_override_extend(Square)(f) is the one installed on Square, and the name
\* f.__name__ is neither a regular attribute nor resolved by the handlers
\* installed before, square.<f.__name__> is partial(f, square) exactly when the
\* caller's frame binds the name to f (locals before globals), and raises
\* AttributeError otherwise.
C1_ScopedLookup ==
    (Made /\ handlers # <<>> /\ Newest.kind \in {"scoped", "no_override"}) =>
        LET f == Newest.target
            name == FuncName(f)
        IN  (/\ ~Regular(name)
             /\ Newest.kind = "no_override" => Earlier(name) = NotFound)
            => Now(name) = IF Visible(f_locals, f_globals, name, f)
                           THEN Partial(f, Obj)
                           ELSE NotFound

C1_Witness ==
    /\ Made
    /\ handlers # <<>> /\ Newest = [kind |-> "scoped", target |-> Draw]
    /\ f_locals["draw"] = Absent /\ f_globals["draw"] = Draw
    /\ result = [name |-> "draw", out |-> Partial(Draw, Obj)]

\* the setting of C2: draw's no_override_extend handler is the one installed,
\* the caller's module binds draw to the function, and nothing else resolves
\* the name
C2_Setting(sq, cd, hs, locs, globs) ==
    /\ sq # <<>>
    /\ hs # <<>> /\ hs[Len(hs)] = [kind |-> "no_override", target |-> Draw]
    /\ globs["draw"] = Draw
    /\ object_getattribute(cd, sq[1], "draw") = NotFound
    /\ call_getattr(cd, hs, Len(hs) - 1, sq[1], "draw", Stack(locs, globs))
           = NotFound

\* C2: with draw registered by no_override_extend and imported at module
\* level, square.draw succeeds while the function has not assigned its local
\* draw; the step that rebinds the local draw to another value leaves the
\* module's binding alone and makes square.draw raise AttributeError, and so
\* does every later state in which the local is bound to another value.
C2_FragileNaming ==
    [][ /\ ( /\ C2_Setting(square, cls_dict, handlers, f_locals, f_globals)
             /\ f_locals["draw"] = Absent
             /\ f_locals'["draw"] \notin {Absent, Draw} )
           => /\ Now("draw") = Partial(Draw, Obj)
              /\ f_globals'["draw"] = Draw
              /\ py_getattr(cls_dict', handlers', square'[1], "draw",
                            f_locals', f_globals') = NotFound
        /\ ( /\ C2_Setting(square', cls_dict', handlers', f_locals', f_globals')
             /\ f_locals'["draw"] \notin {Absent, Draw} )
           => py_getattr(cls_dict', handlers', square'[1], "draw",
                         f_locals', f_globals') = NotFound
      ]_vars

C2_Witness ==
    /\ C2_Setting(square, cls_dict, handlers, f_locals, f_globals)
    /\ f_locals["draw"] = PyTrue
    /\ result = [name |-> "draw", out |-> NotFound]

\* the names that the registrations made so far define as extensions
RegisteredNames ==
    UNION { IF handlers[i].kind = "extension"
            THEN ClassBody(handlers[i].target)
            ELSE {FuncName(handlers[i].target)} : i \in 1..Len(handlers) }

\* C3: whatever was registered, a lookup of a name that is not a regular
\* attribute, that Square's own __getattr__ does not resolve and that no
\* registration defines raises AttributeError.
C3_UnregisteredRaises ==
    [][ (/\ result' # result
         /\ ~Regular(result'.name)
         /\ Square_getattr(Obj, result'.name) = NotFound
         /\ result'.name \notin RegisteredNames)
        => result'.out = NotFound ]_vars

\* C4: a handler installed by scoped_extend(Square)(f) raises AttributeError
\* for every name but f.__name__, whatever the handlers installed before it
\* resolve; while it is the newest handler, so does square.<name> for every
\* such name that is not a regular attribute.
C4_ScopedReplaces ==
    Made => \A i \in 1..Len(handlers) :
        handlers[i].kind = "scoped" =>
            \A name \in LookupNames \ {FuncName(handlers[i].target)} :
                /\ call_getattr(cls_dict, handlers, i, Obj, name,
                                Stack(f_locals, f_globals)) = NotFound
                /\ (i = Len(handlers) /\ ~Regular(name)) => Now(name) = NotFound

\* draw, registered first and in the caller's scope, and snake, resolved by
\* Square.__getattr__, are lost once scoped_extend registers snake's function
C4_Witness ==
    /\ Made
    /\ handlers = << [kind |-> "scoped", target |-> Draw],
                     [kind |-> "scoped", target |-> SnakeFn] >>
    /\ Visible(f_locals, f_globals, "draw", Draw)
    /\ Earlier("draw") = Partial(Draw, Obj)
    /\ ~Regular("draw")
    /\ result = [name |-> "draw", out |-> NotFound]

\* C5: as long as every registration was made with no_override_extend or
\* extension (and snake is no regular attribute), square.snake is 'eyes'.
C5_SnakeKept ==
    (/\ Made
     /\ \A i \in 1..Len(handlers) :
            handlers[i].kind \in {"no_override", "extension"}
     /\ ~Regular("snake"))
    => Now("snake") = StrVal("eyes")

C5_Witness ==
    /\ Made
    /\ Len(handlers) >= 2
    /\ \E i \in 1..Len(handlers) :
           handlers[i] = [kind |-> "no_override", target |-> SnakeFn]
    /\ \E i \in 1..Len(handlers) : handlers[i].kind = "extension"
    /\ ~Regular("snake")
    /\ result = [name |-> "snake", out |-> StrVal("eyes")]

\* does the class have an attribute of that name: one of type's, or one its
\* body defines
ClassHas(c, name) == name \in TypeAttrs \/ name \in ClassBody(c)

\* C6: while the handler of extension(scope_cls) is the one installed, a
\* lookup of a name that is no regular attribute and that the handlers
\* installed before do not resolve yields, when scope_cls has the attribute and
\* the caller's frame binds scope_cls.__name__ to scope_cls, the property's
\* value or the attribute with the square bound as first argument; and
\* AttributeError otherwise.
C6_ExtensionLookup ==
    [][ (/\ result' # result
         /\ handlers # <<>> /\ Newest.kind = "extension"
         /\ ~Regular(result'.name)
         /\ Earlier(result'.name) = NotFound)
        => LET c == Newest.target
               name == result'.name
           IN  result'.out =
                   IF /\ ClassHas(c, name)
                      /\ Visible(f_locals, f_globals, ClassName(c), c)
                   THEN LET f == class_getattr(cls_dict, c, name)
                        IN  IF f.kind = "property" THEN property_get(Obj)
                            ELSE Partial(f.v, Obj)
                   ELSE NotFound ]_vars

\* C7: a function that monkey_extend attached to Square is what
\* square.<f.__name__> finds, bound to the square, whatever handlers are
\* installed and whatever the caller's frame binds.
C7_MonkeyUnscoped ==
    Made => \A name \in DOMAIN cls_dict :
        cls_dict[name] # Absent => Now(name) = BoundMethod(cls_dict[name], Obj)

\* draw is attached while a scoped handler for another draw function is
\* installed and the caller has rebound draw
C7_Witness ==
    /\ Made
    /\ cls_dict["draw"] = Draw
    /\ handlers # <<>> /\ Newest.kind = "scoped"
    /\ f_locals["draw"] = PyTrue
    /\ result = [name |-> "draw", out |-> BoundMethod(Draw, Obj)]

\* C8: a constructed square has a length from 1 to 10, and no step changes
\* the length of a constructed square.
C8_LengthPositive ==
    [][ /\ square' # <<>> => (square'[1] \in Nat /\ square'[1] >= 1 /\ square'[1] <= 10)
        /\ square # <<>> => square' = square ]_vars

C8_Witness ==
    /\ Made
    /\ Obj = 10
    /\ handlers # <<>>
    /\ cls_dict["draw"] # Absent
    /\ result.name = "draw" /\ result.out.kind = "method"

====
